---- MODULE Spec2Model ----
(***************************************************************************)
(* Model of databooks/affirm.py: DatabooksParser, the AST visitor that     *)
(* validates an expression tree against an allow-list of node classes, a   *)
(* table of names and the fields of DatabooksBase objects, and then        *)
(* evaluates it with eval() under a scope built at construction.           *)
(***************************************************************************)
EXTENDS Integers, Sequences, FiniteSets, TLC

VARIABLES
    heap,         \* object store: address -> value (caller's objects and the parser's copies)
    names,        \* DatabooksParser.names: identifier -> binding
    scope,        \* DatabooksParser.scope: identifier -> binding (globals handed to eval)
    lastExpr,     \* body of the tree given to the last safe_eval call
    lastOutcome,  \* what that call returned or raised
    namesBefore,  \* DatabooksParser.names when that call started
    log,          \* the trees that call visited in full and evaluated, in order
    nmut,         \* number of mutations the caller made to its own objects
    nmutBefore    \* that number when the last safe_eval call started

vars == <<heap, names, scope, lastExpr, lastOutcome, namesBefore, log, nmut, nmutBefore>>

\* Largest number of mutations of caller objects in one behaviour.
MaxMutations == 1

-----------------------------------------------------------------------------
(* Python values *)

IntV(n) == [t |-> "int", v |-> n]
StrV(s) == [t |-> "str", v |-> s]
ListV(s) == [t |-> "list", v |-> s]
TupleV(s) == [t |-> "tuple", v |-> s]
\* A DatabooksBase instance: f maps its field names to their values.
DatabooksBase(f) == [t |-> "db", v |-> f]
Ellipsis == [t |-> "ellipsis", v |-> 0]
BuiltinFn(name) == [t |-> "builtin", v |-> name]
FunctionV == [t |-> "function", v |-> 0]
\* A reference to the object stored at address a.
Ref(a) == [t |-> "ref", v |-> a]
\* No entry for the identifier in a dict.
Unbound == [t |-> "unbound", v |-> 0]
\* A local variable of a comprehension that is not assigned yet.
Unassigned == [t |-> "unassigned", v |-> 0]
\* A raised exception of the given type.
Exc(kind) == [t |-> "exc", v |-> kind]

IsExc(x) == x.t = "exc"
Deref(x, h) == IF x.t = "ref" THEN h[x.v] ELSE x
isinstance_DatabooksBase(x) == x.t = "db"

\* Field order in which a DatabooksBase instance is iterated.
FieldOrder == <<"cell_type", "source", "meta", "name">>

\* dict(el) / iter(el) for a DatabooksBase: its (field, value) pairs.
ItemsOf(x) ==
    LET present == SelectSeq(FieldOrder, LAMBDA f : f \in DOMAIN x.v)
    IN [j \in 1..Len(present) |-> TupleV(<<StrV(present[j]), x.v[present[j]]>>)]

\* {**a, **b}
MergeDicts(a, b) ==
    [f \in (DOMAIN a) \cup (DOMAIN b) |-> IF f \in DOMAIN b THEN b[f] ELSE a[f]]

\* get_keys(obj.dict()): the field names of a DatabooksBase.
get_keys(obj) == DOMAIN obj.v

-----------------------------------------------------------------------------
(* ast nodes *)

Expression(body) == [k |-> "Expression", body |-> body]
Constant(n) == [k |-> "Constant", n |-> n]
NameCtx(id, ctx) == [k |-> "Name", id |-> id, ctx |-> [k |-> ctx]]
Name(id) == NameCtx(id, "Load")
Target(id) == NameCtx(id, "Store")
Attribute(value, attr) ==
    [k |-> "Attribute", value |-> value, attr |-> attr, ctx |-> [k |-> "Load"]]
BinOp(left, right) == [k |-> "BinOp", left |-> left, op |-> [k |-> "Add"], right |-> right]
List(elts) == [k |-> "List", elts |-> elts, ctx |-> [k |-> "Load"]]
TupleTarget(elts) == [k |-> "Tuple", elts |-> elts, ctx |-> [k |-> "Store"]]
comprehension(target, iter, ifs) ==
    [k |-> "comprehension", target |-> target, iter |-> iter, ifs |-> ifs]
ListComp(elt, generators) == [k |-> "ListComp", elt |-> elt, generators |-> generators]
keyword(arg, value) == [k |-> "keyword", arg |-> arg, value |-> value]
Call(func, args, keywords) ==
    [k |-> "Call", func |-> func, args |-> args, keywords |-> keywords]
arguments == [k |-> "arguments"]
Lambda(body) == [k |-> "Lambda", args |-> arguments, body |-> body]

\* The ast base class of each node class used here.
BaseClass(kind) ==
    CASE kind \in {"Constant", "Name", "Attribute", "BinOp", "List", "Tuple",
                   "ListComp", "Call", "Lambda"} -> "expr"
      [] kind = "Add" -> "operator"
      [] kind \in {"Load", "Store"} -> "expr_context"
      [] kind = "Expression" -> "mod"
      [] OTHER -> "AST"

_ALLOWED_BUILTINS == {"all", "any", "enumerate", "filter", "hasattr", "len", "list",
                      "range", "sorted"}

\* _ALLOWED_NODES, were ast.AST among its classes.
_ALLOWED_NODES_WithAST ==
    {"Add", "And", "BinOp", "BitAnd", "BitOr", "BitXor", "BoolOp", "boolop", "cmpop",
     "Compare", "comprehension", "Constant", "Dict", "Eq", "Expr", "expr",
     "expr_context", "Expression", "For", "Gt", "GtE", "In", "Is", "IsNot", "List",
     "ListComp", "Load", "LShift", "Lt", "LtE", "Mod", "Name", "Not", "NotEq", "NotIn",
     "Num", "operator", "Or", "RShift", "Set", "Slice", "slice", "Str", "Sub", "Tuple",
     "UAdd", "UnaryOp", "unaryop", "USub", "AST"}

_ALLOWED_NODES ==
    {"Add", "And", "BinOp", "BitAnd", "BitOr", "BitXor", "BoolOp", "boolop", "cmpop",
     "Compare", "comprehension", "Constant", "Dict", "Eq", "Expr", "expr",
     "expr_context", "Expression", "For", "Gt", "GtE", "In", "Is", "IsNot", "List",
     "ListComp", "Load", "LShift", "Lt", "LtE", "Mod", "Name", "Not", "NotEq", "NotIn",
     "Num", "operator", "Or", "RShift", "Set", "Slice", "slice", "Str", "Sub", "Tuple",
     "UAdd", "UnaryOp", "unaryop", "USub"}

\* The classes a node of class kind is an instance of.
ClassesOf(kind) == {kind, BaseClass(kind), "AST"}

\* isinstance(node, _ALLOWED_NODES)
isinstance_ALLOWED(node) == ClassesOf(node.k) \cap _ALLOWED_NODES # {}

\* The child nodes generic_visit visits, in its order: the fields in declaration
\* order, "generators" moved to the front.
ChildNodes(node) ==
    CASE node.k = "Expression" -> <<node.body>>
      [] node.k = "Name" -> <<node.ctx>>
      [] node.k = "Attribute" -> <<node.value, node.ctx>>
      [] node.k = "BinOp" -> <<node.left, node.op, node.right>>
      [] node.k \in {"List", "Tuple"} -> node.elts \o <<node.ctx>>
      [] node.k = "ListComp" -> node.generators \o <<node.elt>>
      [] node.k = "comprehension" -> <<node.target, node.iter>> \o node.ifs
      [] node.k = "Call" -> <<node.func>> \o node.args \o node.keywords
      [] node.k = "keyword" -> <<node.value>>
      [] node.k = "Lambda" -> <<node.args, node.body>>
      [] OTHER -> <<>>

-----------------------------------------------------------------------------
(* The caller's variables *)

cell_code == [cell_type |-> IntV(1), source |-> IntV(7)]
cell_md == [cell_type |-> IntV(2)]
cell_src == [source |-> IntV(8)]

\* The keyword arguments of DatabooksParser(**variables).
variables ==
    [n |-> IntV(5),
     items |-> ListV(<<IntV(2), IntV(1)>>),
     cell |-> DatabooksBase(cell_code),
     cells |-> ListV(<<DatabooksBase(cell_md), DatabooksBase(cell_src)>>),
     mixed |-> ListV(<<IntV(1), DatabooksBase(cell_md)>>),
     empty |-> ListV(<<>>),
     xss |-> ListV(<<ListV(<<IntV(1)>>), ListV(<<IntV(2), IntV(3)>>)>>),
     nb |-> DatabooksBase([meta |-> DatabooksBase([name |-> IntV(4)])])]

Supplied == DOMAIN variables
Idents == Supplied \cup {"len", "i", "c", "u"}

CallerAddr(id) == <<"caller", id>>
ParserAddr(id) == <<"parser", id>>
Addrs == {CallerAddr(id) : id \in Supplied} \cup {ParserAddr(id) : id \in Supplied}

-----------------------------------------------------------------------------
(* eval(): the evaluation of a tree under self.scope *)

\* The local variables of a comprehension: loc with id bound to val.
Bind(loc, id, val) == [x \in (DOMAIN loc) \cup {id} |-> IF x = id THEN val ELSE loc[x]]

\* A name is looked up among the locals of the enclosing comprehensions, then in
\* the globals (self.scope), then in scope["__builtins__"].
Lookup(id, loc, h) ==
    IF id \in DOMAIN loc
    THEN (IF loc[id].t = "unassigned" THEN Exc("NameError") ELSE loc[id])
    ELSE IF scope[id].t # "unbound" THEN Deref(scope[id], h)
    ELSE IF id \in _ALLOWED_BUILTINS THEN BuiltinFn(id)
    ELSE Exc("NameError")

Truthy(x) ==
    CASE x.t = "int" -> x.v # 0
      [] x.t \in {"list", "tuple"} -> Len(x.v) > 0
      [] OTHER -> TRUE

Iterable(x) == x.t \in {"list", "tuple", "db"}
IterItems(x) == IF x.t = "db" THEN ItemsOf(x) ELSE x.v

\* A call of a built-in; len is the one the expressions of this model name.
Apply(f, args, nkeywords) ==
    IF /\ f.t = "builtin"
       /\ f.v = "len"
       /\ Len(args) = 1
       /\ nkeywords = 0
       /\ args[1].t \in {"list", "tuple"}
    THEN IntV(Len(args[1].v))
    ELSE Exc("TypeError")

Add(x, y) ==
    CASE x.t = "int" /\ y.t = "int" -> IntV(x.v + y.v)
      [] x.t = "list" /\ y.t = "list" -> ListV(x.v \o y.v)
      [] x.t = "tuple" /\ y.t = "tuple" -> TupleV(x.v \o y.v)
      [] OTHER -> Exc("TypeError")

RECURSIVE Eval(_, _, _), EvalSeq(_, _, _), EvalIfs(_, _, _), EvalGen(_, _, _, _, _),
          EvalFor(_, _, _, _, _, _, _)

\* The values of nodes, left to right, as a list; the first exception ends it.
EvalSeq(nodes, loc, h) ==
    IF Len(nodes) = 0 THEN ListV(<<>>)
    ELSE LET x == Eval(Head(nodes), loc, h)
         IN IF IsExc(x) THEN x
            ELSE LET r == EvalSeq(Tail(nodes), loc, h)
                 IN IF IsExc(r) THEN r ELSE ListV(<<x>> \o r.v)

\* The conditions of a generator: IntV(1) when all hold, IntV(0) at the first
\* that does not.
EvalIfs(ifs, loc, h) ==
    IF Len(ifs) = 0 THEN IntV(1)
    ELSE LET x == Eval(Head(ifs), loc, h)
         IN IF IsExc(x) THEN x
            ELSE IF ~Truthy(x) THEN IntV(0)
            ELSE EvalIfs(Tail(ifs), loc, h)

\* Generator g of the comprehension node, from element j of its iterable on.
EvalFor(node, g, items, j, loc, acc, h) ==
    IF j > Len(items) THEN ListV(acc)
    ELSE LET gen == node.generators[g]
             loc2 == Bind(loc, gen.target.id, items[j])
             cond == EvalIfs(gen.ifs, loc2, h)
         IN IF IsExc(cond) THEN cond
            ELSE IF cond.v = 0 THEN EvalFor(node, g, items, j + 1, loc2, acc, h)
            ELSE LET r == IF g = Len(node.generators)
                          THEN LET x == Eval(node.elt, loc2, h)
                               IN IF IsExc(x) THEN x ELSE ListV(<<x>>)
                          ELSE EvalGen(node, g + 1,
                                       Eval(node.generators[g + 1].iter, loc2, h),
                                       loc2, h)
                 IN IF IsExc(r) THEN r
                    ELSE EvalFor(node, g, items, j + 1, loc2, acc \o r.v, h)

EvalGen(node, g, itv, loc, h) ==
    IF IsExc(itv) THEN itv
    ELSE IF ~Iterable(itv) THEN Exc("TypeError")
    ELSE EvalFor(node, g, IterItems(itv), 1, loc, <<>>, h)

Eval(node, loc, h) ==
    CASE node.k = "Constant" -> IntV(node.n)
      [] node.k = "Name" -> Lookup(node.id, loc, h)
      [] node.k = "Attribute" ->
            LET x == Eval(node.value, loc, h)
            IN IF IsExc(x) THEN x
               ELSE IF x.t = "db" /\ node.attr \in DOMAIN x.v THEN x.v[node.attr]
               ELSE Exc("AttributeError")
      [] node.k = "BinOp" ->
            LET x == Eval(node.left, loc, h)
            IN IF IsExc(x) THEN x
               ELSE LET y == Eval(node.right, loc, h)
                    IN IF IsExc(y) THEN y ELSE Add(x, y)
      [] node.k = "List" -> EvalSeq(node.elts, loc, h)
      [] node.k = "Call" ->
            LET f == Eval(node.func, loc, h)
            IN IF IsExc(f) THEN f
               ELSE LET a == EvalSeq(node.args, loc, h)
                    IN IF IsExc(a) THEN a
                       ELSE LET kw == EvalSeq([j \in 1..Len(node.keywords) |->
                                                  node.keywords[j].value], loc, h)
                            IN IF IsExc(kw) THEN kw
                               ELSE Apply(f, a.v, Len(node.keywords))
      [] node.k = "Lambda" -> FunctionV
      [] node.k = "ListComp" ->
            \* The first iterable is evaluated outside the comprehension's own
            \* function; its targets are locals of that function from the start.
            LET gens == node.generators
                targets == {gens[j].target.id : j \in 1..Len(gens)}
                inner == [x \in (DOMAIN loc) \cup targets |->
                             IF x \in targets THEN Unassigned ELSE loc[x]]
            IN EvalGen(node, 1, Eval(gens[1].iter, loc, h), inner, h)
      [] OTHER -> Exc("TypeError")

-----------------------------------------------------------------------------
(* DatabooksParser: the validation of a tree, and safe_eval *)

\* What a visit carries: self.names, the exception raised ("" when none), the
\* value eval returned, and the record of trees visited in full and evaluated.
Visiting(nm) == [names |-> nm, exc |-> "", value |-> Unbound, log |-> <<>>]
Raise(st, kind) == [st EXCEPT !.exc = kind]
Visited(tree) == [ev |-> "visited", tree |-> tree]
Evaluated(tree) == [ev |-> "eval", tree |-> tree]

RECURSIVE visit(_, _, _), visit_each(_, _, _), generic_visit(_, _, _),
          visit_comprehension(_, _, _), visit_Attribute(_, _, _),
          visit_Name(_, _, _), safe_eval_ast(_, _, _)

\* The loop of generic_visit over the child nodes; an exception ends it.
visit_each(nodes, st, h) ==
    IF Len(nodes) = 0 \/ st.exc # "" THEN st
    ELSE visit_each(Tail(nodes), visit(Head(nodes), st, h), h)

generic_visit(node, st, h) ==
    IF ~isinstance_ALLOWED(node) THEN Raise(st, "DisallowedSyntax")
    ELSE visit_each(ChildNodes(node), st, h)

\* LoopVarBinding, were it to ask that every element be a DatabooksBase.
LoopVarBinding_All(elements) ==
    LET d_attrs[j \in 1..Len(elements)] ==
            IF j = 1 THEN elements[1].v ELSE MergeDicts(d_attrs[j - 1], elements[j].v)
    IN IF Len(elements) > 0 /\ \A j \in 1..Len(elements) : isinstance_DatabooksBase(elements[j])
       THEN DatabooksBase(d_attrs[Len(elements)])
       ELSE Ellipsis

\* The loop variable's entry in self.names, from the elements of the iterable.
LoopVarBinding(elements) ==
    LET databooks_el == SelectSeq(elements, isinstance_DatabooksBase)
        d_attrs[j \in 1..Len(databooks_el)] ==
            IF j = 1 THEN databooks_el[1].v
            ELSE MergeDicts(d_attrs[j - 1], databooks_el[j].v)
    IN IF Len(databooks_el) > 0
       THEN DatabooksBase(d_attrs[Len(databooks_el)])
       ELSE Ellipsis

visit_comprehension(node, st, h) ==
    IF node.target.k # "Name" THEN Raise(st, "MalformedComprehensionTarget")
    ELSE LET r == safe_eval_ast(Expression(node.iter), st, h)   \* _get_iter
         IN IF r.exc # "" THEN r
            ELSE IF ~Iterable(r.value) THEN Raise(r, "TypeError")
            ELSE generic_visit(node,
                     [r EXCEPT !.names[node.target.id] =
                                   LoopVarBinding(IterItems(r.value))],
                     h)

\* visit_Attribute, were it to allow no attribute of an attribute.
visit_Attribute_NoChain(node, st, h) ==
    IF node.value.k \notin {"Attribute", "Name"} THEN Raise(st, "DisallowedAttribute")
    ELSE IF node.value.k # "Attribute"
    THEN IF st.names[node.value.id].t = "unbound" THEN Raise(st, "KeyError")
         ELSE LET obj == Deref(st.names[node.value.id], h)
                  allowed_attrs == IF isinstance_DatabooksBase(obj)
                                   THEN get_keys(obj) ELSE {}
              IN IF node.attr \notin allowed_attrs
                 THEN Raise(st, "DisallowedAttribute")
                 ELSE generic_visit(node, st, h)
    ELSE Raise(st, "DisallowedAttribute")

visit_Attribute(node, st, h) ==
    IF node.value.k \notin {"Attribute", "Name"} THEN Raise(st, "DisallowedAttribute")
    ELSE IF node.value.k # "Attribute"
    THEN IF st.names[node.value.id].t = "unbound" THEN Raise(st, "KeyError")
         ELSE LET obj == Deref(st.names[node.value.id], h)
                  allowed_attrs == IF isinstance_DatabooksBase(obj)
                                   THEN get_keys(obj) ELSE {}
              IN IF node.attr \notin allowed_attrs
                 THEN Raise(st, "DisallowedAttribute")
                 ELSE generic_visit(node, st, h)
    ELSE generic_visit(node, st, h)

visit_Name(node, st, h) ==
    IF st.names[node.id].t = "unbound" /\ node.id \notin _ALLOWED_BUILTINS
    THEN Raise(st, "UnknownName")
    ELSE generic_visit(node, st, h)

\* NodeVisitor.visit: the method named after the node's class, else generic_visit.
visit(node, st, h) ==
    CASE node.k = "comprehension" -> visit_comprehension(node, st, h)
      [] node.k = "Attribute" -> visit_Attribute(node, st, h)
      [] node.k = "Name" -> visit_Name(node, st, h)
      [] OTHER -> generic_visit(node, st, h)

\* safe_eval_ast, were it to call eval before the visit.
safe_eval_ast_EvalFirst(ast_tree, st, h) ==
    LET val == Eval(ast_tree.body, <<>>, h)
        v == visit(ast_tree, [st EXCEPT !.log = Append(@, Evaluated(ast_tree))], h)
    IN IF v.exc # "" THEN v
       ELSE [v EXCEPT !.log = Append(@, Visited(ast_tree)),
                      !.value = val,
                      !.exc = IF IsExc(val) THEN val.v ELSE ""]

safe_eval_ast(ast_tree, st, h) ==
    LET v == visit(ast_tree, st, h)
    IN IF v.exc # "" THEN v
       ELSE LET val == Eval(ast_tree.body, <<>>, h)
            IN [v EXCEPT !.log = @ \o <<Visited(ast_tree), Evaluated(ast_tree)>>,
                         !.value = val,
                         !.exc = IF IsExc(val) THEN val.v ELSE ""]

\* safe_eval(src), src being the source text of the expression body.
safe_eval(body, nm, h) == safe_eval_ast(Expression(body), Visiting(nm), h)

\* What the caller of safe_eval gets: a value, or the exception.
Outcome(r) ==
    IF r.exc = "" THEN [kind |-> "value", value |-> r.value]
    ELSE [kind |-> r.exc, value |-> Unbound]

-----------------------------------------------------------------------------
(* The expressions given to safe_eval *)

Generator(t, iter) == comprehension(Target(t), iter, <<>>)
Over(elt, t, it) == ListComp(elt, <<Generator(t, Name(it))>>)

\* len(items, k=1) and (lambda: 1): a keyword and an arguments node.
KeywordCall == Call(Name("len"), <<Name("items")>>, <<keyword("k", Constant(1))>>)
LambdaExpr == Lambda(Constant(1))

NameExprs == {Name(x) : x \in Idents}

AttrExprs ==
    {Attribute(Name(x), f) : x \in {"cell", "nb", "n", "items", "len", "u", "c"},
                             f \in {"cell_type", "zz"}}
    \cup {Attribute(Name("nb"), "meta")}

ChainExprs ==
    {Attribute(Attribute(Name(x), f), g) : x \in {"nb", "cell", "n"},
                                           f \in {"meta", "cell_type"},
                                           g \in {"name", "zz"}}
    \cup {Attribute(Attribute(Name("c"), "cell_type"), "zz")}
    \cup {Attribute(Attribute(Attribute(Name("nb"), "meta"), "name"), g) :
             g \in {"name", "zz"}}

OperandExprs ==
    {BinOp(Name(x), Constant(1)) : x \in {"n", "u", "i", "items"}}
    \cup {BinOp(Constant(1), Name(x)) : x \in {"n", "u"}}
    \cup {List(<<Name("n"), Name(x)>>) : x \in {"u", "items"}}

CompExprs ==
    {Over(Name("i"), "i", it) : it \in {"items", "n", "u", "xss", "i"}}
    \cup {Over(Name("c"), "c", it) : it \in {"items", "cells", "mixed", "empty", "cell"}}
    \cup {Over(Name("cell"), "cell", it) : it \in {"items", "cells"}}

CompAttrExprs ==
    {Over(Attribute(Name("c"), f), "c", it) : it \in {"cells", "mixed", "empty", "items"},
                                              f \in {"cell_type", "zz"}}

CompFilterExprs ==
    {ListComp(Name("c"),
              <<comprehension(Target("c"), Name(it),
                              <<Attribute(Name("c"), "cell_type")>>)>>) :
         it \in {"cells", "mixed", "empty"}}
    \cup {ListComp(Name("i"), <<comprehension(Target("i"), Name("items"), <<Name(x)>>)>>) :
             x \in {"i", "u"}}

\* [y for x in xss for y in x]
Flatten(x, y, it) == ListComp(Name(y), <<Generator(x, Name(it)), Generator(y, Name(x))>>)
\* [[y for y in x] for x in xss]
Nested(x, y, it) == ListComp(Over(Name(y), y, x), <<Generator(x, Name(it))>>)

LoopVarIterExprs ==
    {Flatten(x, "i", it) : x \in {"c", "cell"}, it \in {"xss", "items"}}
    \cup {Nested(x, "i", it) : x \in {"c", "cell"}, it \in {"xss", "items"}}

CallExprs ==
    {Call(Name(f), <<Name(x)>>, <<>>) : f \in {"len", "u"}, x \in {"items", "n", "u"}}
    \cup {Over(Call(Name("len"), <<Name("i")>>, <<>>), "i", "xss")}

\* A node outside the allow-list at the top, as an operand, in a list, in a
\* call, in the parts of a comprehension, as the base of an attribute, and
\* beside another defect.
NestedOutsideExprs ==
    UNION {{bad,
            BinOp(Constant(1), bad),
            BinOp(bad, Name("n")),
            BinOp(Constant(1), BinOp(Name("n"), bad)),
            List(<<Name("items"), bad>>),
            Call(Name("len"), <<bad>>, <<>>),
            Over(bad, "i", "items"),
            Over(List(<<Name("i"), bad>>), "i", "empty"),
            ListComp(Name("i"), <<comprehension(Target("i"), Name("items"), <<bad>>)>>),
            ListComp(Name("i"), <<Generator("i", bad)>>),
            Attribute(bad, "cell_type"),
            List(<<Name("u"), bad>>),
            List(<<bad, Name("u")>>),
            Over(bad, "i", "n")} : bad \in {LambdaExpr}}
    \cup {KeywordCall, BinOp(Constant(1), KeywordCall), Over(KeywordCall, "i", "items")}

\* A loop variable named next to its comprehension, and a comprehension whose
\* loop variable has the name of a supplied variable.
SiblingExprs ==
    {BinOp(Over(Name("i"), "i", "items"), List(<<Name("i")>>)),
     List(<<Name("i"), Over(Name("i"), "i", "items")>>),
     List(<<Attribute(Name("cell"), "cell_type"), Over(Name("cell"), "cell", "items")>>),
     List(<<Over(Name("cell"), "cell", "cells"), Attribute(Name("cell"), "source")>>)}

MalformedTargetExprs ==
    {ListComp(Name("i"),
              <<comprehension(TupleTarget(<<Target("i"), Target("c")>>), Name("xss"),
                              <<>>)>>)}

Exprs ==
    NameExprs \cup AttrExprs \cup ChainExprs \cup OperandExprs \cup CompExprs
    \cup CompAttrExprs \cup CompFilterExprs \cup LoopVarIterExprs \cup CallExprs
    \cup NestedOutsideExprs \cup SiblingExprs \cup MalformedTargetExprs

\* The expressions over the variables whose objects the caller mutates.
CallerExprs ==
    {Name("items"), Name("cell"), Name("cells"), Name("n"),
     Attribute(Name("cell"), "cell_type"), Attribute(Name("cell"), "source"),
     BinOp(Name("items"), Name("items")),
     Call(Name("len"), <<Name("items")>>, <<>>),
     Over(Name("c"), "c", "cells"), Over(Attribute(Name("c"), "source"), "c", "cells"),
     Over(Name("cell"), "cell", "items"), Over(Name("i"), "i", "items"),
     Attribute(Name("c"), "source")}

-----------------------------------------------------------------------------
(* The state machine: one DatabooksParser and its caller *)

\* What the caller may turn one of its own objects into after construction.
Mutations ==
    [items |-> ListV(<<IntV(9)>>),
     cell |-> DatabooksBase(cell_src),
     cells |-> ListV(<<>>)]

\* deepcopy, were it to hand back the caller's own object.
deepcopy_Alias(id) == Ref(CallerAddr(id))

\* deepcopy(variables)[id]: a reference to a copy of the caller's object.
deepcopy(id) == Ref(ParserAddr(id))

\* The heap once __init__ has run: the caller's objects, and their copies.
ConstructionHeap == [a \in Addrs |-> variables[a[2]]]

NoExpr == [k |-> "none"]
NoOutcome == [kind |-> "none", value |-> Unbound]

\* self.names once __init__ has run.
ConstructionNames == [id \in Idents |-> IF id \in Supplied THEN deepcopy(id) ELSE Unbound]

\* DatabooksParser(**variables)
Init ==
    /\ heap = ConstructionHeap
    /\ names = ConstructionNames
    /\ scope = names
    /\ lastExpr = NoExpr
    /\ lastOutcome = NoOutcome
    /\ namesBefore = names
    /\ log = <<>>
    /\ nmut = 0
    /\ nmutBefore = 0

\* parser.safe_eval(src)
SafeEval(e) ==
    \E r \in {safe_eval(e, names, heap)} :
       /\ names' = r.names
       /\ lastExpr' = e
       /\ lastOutcome' = Outcome(r)
       /\ namesBefore' = names
       /\ log' = r.log
       /\ nmutBefore' = nmut
       /\ UNCHANGED <<heap, scope, nmut>>

\* The caller changes one of the objects it passed to the constructor.
MutateCaller(id) ==
    /\ nmut < MaxMutations
    /\ heap[CallerAddr(id)] # Mutations[id]
    /\ heap' = [heap EXCEPT ![CallerAddr(id)] = Mutations[id]]
    /\ nmut' = nmut + 1
    /\ UNCHANGED <<names, scope, lastExpr, lastOutcome, namesBefore, log, nmutBefore>>

\* One parser, given any sequence of expressions.
Next == \E e \in Exprs : SafeEval(e)

Spec == Init /\ [][Next]_vars

\* The parser and its caller, who goes on mutating the objects it supplied.
NextCaller ==
    \/ \E e \in CallerExprs : SafeEval(e)
    \/ \E id \in DOMAIN Mutations : MutateCaller(id)

SpecCaller == Init /\ [][NextCaller]_vars

-----------------------------------------------------------------------------
(* Properties *)

Called == lastExpr.k # "none"
kind == lastOutcome.kind
LastTree == Expression(lastExpr)

\* The last call's tree passed validation: it was visited in full.
Validated == \E j \in 1..Len(log) : log[j] = Visited(LastTree)
ValidationFailed == Called /\ ~Validated
EvalCalls == {j \in 1..Len(log) : log[j].ev = "eval"}

RECURSIVE HasKind(_, _), Iterables(_), Sound(_, _), SoundGens(_, _, _)

\* Some node of the tree is of one of the classes kinds.
HasKind(node, kinds) ==
    \/ node.k \in kinds
    \/ \E j \in 1..Len(ChildNodes(node)) : HasKind(ChildNodes(node)[j], kinds)

\* The iterables of the comprehensions of the tree.
Iterables(node) ==
    (IF node.k = "comprehension" THEN {node.iter} ELSE {})
    \cup UNION {Iterables(ChildNodes(node)[j]) : j \in 1..Len(ChildNodes(node))}

\* The tree has no defect other than the classes of its nodes: every name is a
\* supplied variable, a built-in or the loop variable of an enclosing
\* comprehension; there is no attribute access; every comprehension's target is
\* one name and its iterable a supplied list.
Sound(node, bound) ==
    CASE node.k = "Name" -> node.id \in Supplied \cup _ALLOWED_BUILTINS \cup bound
      [] node.k = "Attribute" -> FALSE
      [] node.k = "ListComp" -> SoundGens(node, 1, bound)
      [] OTHER -> \A j \in 1..Len(ChildNodes(node)) : Sound(ChildNodes(node)[j], bound)

SoundGens(node, g, bound) ==
    IF g > Len(node.generators) THEN Sound(node.elt, bound)
    ELSE LET gen == node.generators[g]
         IN /\ gen.target.k = "Name"
            /\ gen.iter.k = "Name"
            /\ gen.iter.id \in Supplied
            /\ variables[gen.iter.id].t = "list"
            /\ \A j \in 1..Len(gen.ifs) : Sound(gen.ifs[j], bound \cup {gen.target.id})
            /\ SoundGens(node, g + 1, bound \cup {gen.target.id})

\* The node classes that no allow-listed class covers.
OutsideKinds == {"keyword", "arguments"}

\* C1, as amended: an expression with a keyword argument or a lambda's argument
\* list (a call itself is allow-listed, as an ast.expr) never yields a value, at
\* whatever depth the node is; and it fails with DisallowedSyntax when it has no
\* other defect.
C1_OutsideNodeRejected ==
    (Called /\ HasKind(lastExpr, OutsideKinds)) =>
        /\ kind # "value"
        /\ ~Validated
        /\ Sound(lastExpr, {}) => kind = "DisallowedSyntax"

\* C1 witness: a lambda as the result expression of a comprehension, and as the
\* operand of an operand, was rejected with DisallowedSyntax.
C1_Witness ==
    /\ lastExpr \in {Over(LambdaExpr, "i", "items"),
                     BinOp(Constant(1), BinOp(Name("n"), LambdaExpr))}
    /\ kind = "DisallowedSyntax"

\* C1, as stated: function-call syntax is outside the allow-list, so an
\* expression with a call (and no other defect) fails with DisallowedSyntax.
C1_CallRejected ==
    (Called /\ HasKind(lastExpr, OutsideKinds \cup {"Call"}) /\ Sound(lastExpr, {})) =>
        kind = "DisallowedSyntax"

\* C2, as stated: a.b with a a known simple name yields a value iff a is bound,
\* when validation starts, to a DatabooksBase with field b; otherwise it fails
\* with DisallowedAttribute and nothing is evaluated.
C2_AttributeOfName ==
    (/\ Called
     /\ lastExpr.k = "Attribute"
     /\ lastExpr.value.k = "Name"
     /\ lastExpr.value.id \in Supplied \cup _ALLOWED_BUILTINS) =>
        LET a == lastExpr.value.id
            declares == /\ namesBefore[a].t # "unbound"
                        /\ isinstance_DatabooksBase(Deref(namesBefore[a], heap))
                        /\ lastExpr.attr \in DOMAIN Deref(namesBefore[a], heap).v
        IN /\ (kind = "value") <=> declares
           /\ ~declares => (kind = "DisallowedAttribute" /\ EvalCalls = {})

\* An identifier of neither tier of the scope.
UnknownId(id) == id \notin Supplied \cup _ALLOWED_BUILTINS

\* The expression names an unknown identifier as a bare name, as an operand, as
\* a comprehension's iterable or as the base of an attribute access.
NamesUnknown(e) ==
    \/ e.k = "Name" /\ UnknownId(e.id)
    \/ /\ e.k = "BinOp"
       /\ \/ e.left.k = "Name" /\ UnknownId(e.left.id) /\ e.right.k = "Constant"
          \/ e.left.k = "Constant" /\ e.right.k = "Name" /\ UnknownId(e.right.id)
    \/ /\ e.k = "ListComp"
       /\ Len(e.generators) = 1
       /\ e.generators[1].target.k = "Name"
       /\ e.generators[1].iter.k = "Name"
       /\ UnknownId(e.generators[1].iter.id)
    \/ e.k = "Attribute" /\ e.value.k = "Name" /\ UnknownId(e.value.id)

\* C3, as stated: an expression that names an identifier of neither tier fails
\* with UnknownName, in each of these positions.
C3_UnknownName == (Called /\ NamesUnknown(lastExpr)) => kind = "UnknownName"

\* C4, as stated: when safe_eval is over, and with it the extent of every
\* comprehension of the expression, the name table is what it was before.
C4_NamesRestored == names = namesBefore

\* C5, as stated: an expression evaluated twice in a row has the same outcome
\* both times, and its outcome is the one it has on a parser just constructed.
C5_Repeatable ==
    /\ [](Called => lastOutcome = Outcome(safe_eval(lastExpr, ConstructionNames, heap)))
    /\ [][(Called /\ lastExpr' = lastExpr) => lastOutcome' = lastOutcome]_vars

\* C6, as amended: when validation fails the expression itself is not executed;
\* the eval calls made before the failure are of iterables of comprehensions of
\* the expression, each made once that iterable had passed validation.
C6_NoEvalOfFailedExpr ==
    /\ \A j \in EvalCalls : j > 1 /\ log[j - 1] = Visited(log[j].tree)
    /\ ValidationFailed =>
          \A j \in EvalCalls :
              /\ log[j].tree # LastTree
              /\ \E it \in Iterables(lastExpr) : log[j].tree = Expression(it)

\* C6 witness: validation failed with DisallowedSyntax after an iterable had
\* been evaluated.
C6_Witness ==
    /\ ValidationFailed
    /\ kind = "DisallowedSyntax"
    /\ \E j \in EvalCalls : log[j].tree = Expression(Name("items"))

\* The exceptions the visitor methods raise themselves.
Diagnostics ==
    {"DisallowedSyntax", "UnknownName", "DisallowedAttribute",
     "MalformedComprehensionTarget"}

\* C6, as stated: when validation fails at a node, no eval call was made before
\* the diagnostic, neither of the expression nor of any part of it.
C6_NoEvalAtAll == (ValidationFailed /\ kind \in Diagnostics) => EvalCalls = {}

\* C7: the outcome of safe_eval, and the names it leaves, are those it has with
\* every object as it was at construction, whatever the caller did to its own
\* objects since.
C7_CopyOnConstruct ==
    Called =>
        /\ lastOutcome = Outcome(safe_eval(lastExpr, namesBefore, ConstructionHeap))
        /\ names = safe_eval(lastExpr, namesBefore, ConstructionHeap).names
        /\ \A id \in Supplied : Deref(scope[id], heap) = variables[id]

\* C7 witness: after the caller took field cell_type off its cell object,
\* cell.cell_type still evaluated to the value of construction time.
C7_Witness ==
    /\ nmutBefore > 0
    /\ heap[CallerAddr("cell")] = Mutations.cell
    /\ lastExpr = Attribute(Name("cell"), "cell_type")
    /\ lastOutcome = [kind |-> "value", value |-> IntV(1)]

\* The last expression is [elt for t in it], it a name, with no comprehension
\* inside, and the binder got the elements of it.
BinderRan ==
    /\ Called
    /\ lastExpr.k = "ListComp"
    /\ Len(lastExpr.generators) = 1
    /\ lastExpr.generators[1].target.k = "Name"
    /\ lastExpr.generators[1].iter.k = "Name"
    /\ ~HasKind(lastExpr.elt, {"ListComp"})
    /\ \A j \in 1..Len(lastExpr.generators[1].ifs) :
           ~HasKind(lastExpr.generators[1].ifs[j], {"ListComp"})
    /\ \E j \in EvalCalls : log[j].tree = Expression(lastExpr.generators[1].iter)
    /\ Iterable(Eval(lastExpr.generators[1].iter, <<>>, heap))

LoopVar == names[lastExpr.generators[1].target.id]
Elements == IterItems(Eval(lastExpr.generators[1].iter, <<>>, heap))
DatabooksElements == {j \in 1..Len(Elements) : isinstance_DatabooksBase(Elements[j])}

\* Every attribute access on name id fails with DisallowedAttribute.
Opaque(id) ==
    \A f \in {FieldOrder[j] : j \in 1..Len(FieldOrder)} :
        visit(Attribute(Name(id), f), Visiting(names), heap).exc = "DisallowedAttribute"

\* C8, as amended: the loop variable is registered as a DatabooksBase iff at
\* least one element of the iterable is a DatabooksBase, its fields the union of
\* the fields of those elements; otherwise (an empty iterable, or one with no
\* DatabooksBase) it is registered as Ellipsis, on which no attribute is allowed.
C8_BinderAnyElement ==
    BinderRan =>
        /\ isinstance_DatabooksBase(LoopVar) <=> DatabooksElements # {}
        /\ isinstance_DatabooksBase(LoopVar) =>
              DOMAIN LoopVar.v = UNION {DOMAIN Elements[j].v : j \in DatabooksElements}
        /\ ~isinstance_DatabooksBase(LoopVar) =>
              (LoopVar = Ellipsis /\ Opaque(lastExpr.generators[1].target.id))

\* C8 witness: over a list of an int and a DatabooksBase, the loop variable was
\* registered as a DatabooksBase.
C8_Witness ==
    /\ BinderRan
    /\ lastExpr.generators[1].iter.id = "mixed"
    /\ isinstance_DatabooksBase(LoopVar)

\* C8, as stated: the loop variable is registered as a DatabooksBase iff the
\* iterable is not empty and every element is a DatabooksBase.
C8_BinderEveryElement ==
    BinderRan =>
        (isinstance_DatabooksBase(LoopVar) <=>
            (Len(Elements) > 0 /\ DatabooksElements = 1..Len(Elements)))

\* C9, as stated: [y for x in xss for y in x] and [[y for y in x] for x in xss],
\* xss a supplied list of lists, x and y names of no supplied variable, pass
\* validation and evaluate to a value.
C9_LoopVarAsIterable ==
    (/\ Called
     /\ lastExpr.k = "ListComp"
     /\ \E x, y \in Idents \ (Supplied \cup _ALLOWED_BUILTINS) :
            x # y /\ lastExpr \in {Flatten(x, y, "xss"), Nested(x, y, "xss")}) =>
        kind = "value"

RECURSIVE ChainRoot(_)
\* The attribute access at the root of a chain: a.b of a.b.c.d.
ChainRoot(node) == IF node.value.k = "Attribute" THEN ChainRoot(node.value) ELSE node

\* a.b.c, a.b.c.d, ...: an attribute chain on a name.
IsChain(e) ==
    /\ e.k = "Attribute"
    /\ e.value.k = "Attribute"
    /\ ChainRoot(e).value.k = "Name"

====
